---------------------------- MODULE Spec2Model ----------------------------
(***************************************************************************)
(* digital_ocean_droplet: reconciliation of one droplet against the        *)
(* DigitalOcean v2 API (src/cloud/digital_ocean/digital_ocean_droplet.py). *)
(*                                                                         *)
(* An invocation is main() -> core(module).  Every REST call of an         *)
(* invocation is one atomic step; the remote droplet collection is shared  *)
(* state that the provider also changes on its own (a droplet boots).      *)
(* Python's None/False/0/"" (all falsy) are written as the values NoId,    *)
(* NoName and NoDroplet.                                                   *)
(***************************************************************************)
EXTENDS Integers, Sequences, FiniteSets, TLC

\* ------------------------------------------------------------- bounds
MaxId == 3            \* droplet ids the provider can hand out: 1..MaxId
MaxInitial == 2       \* droplets that exist before the first invocation
MaxInvocations == 2   \* invocations started in one behaviour
MaxWaitSteps == 3     \* wait_timeout ranges over 0..MaxWaitSteps time steps
NumProcs == 2         \* invocations that may exist side by side

\* ---------------------------------------------------- program constants
Interval == 20        \* min(20, ...) cap of one sleep, in seconds
TimeStep == 10        \* granularity of the modelled clock, in seconds

Procs == 1..NumProcs
SeqProcs == {1}
DropletIds == 1..MaxId
NoId == 0
NoName == ""
Names == {"web", "db"}
NoDroplet == [id |-> 0, name |-> "", status |-> ""]
States == {"present", "active", "absent", "deleted"}
WaitTimeouts == {k * TimeStep : k \in 0..MaxWaitSteps}
DefaultWaitTimeout == 300

Min(a, b) == IF a < b THEN a ELSE b

VARIABLES
    remote,       \* provider: id -> droplet record, NoDroplet when none
    nextId,       \* provider: the id the next created droplet gets
    booting,      \* provider: ids with a power_on action in progress
    invocations,  \* invocations started so far
    pc,           \* per invocation: position in core / ensure_powered_on
    params,       \* per invocation: module.params
    creds,        \* per invocation: module.params['api_token'] and the
                  \* environment variables DO_API_TOKEN and DO_API_KEY
    droplet,      \* per invocation: core's local `droplet`
    changed,      \* per invocation: core's local `changed`
    calls,        \* per invocation: REST calls issued, in order
    now,          \* per invocation: time.time() since the poll loop began
    end_time,     \* per invocation: ensure_powered_on's end_time
    outcome,      \* per invocation: the exit_json / fail_json report
    slept,        \* per invocation: seconds spent in time.sleep
    prev          \* per invocation: report and calls of the previous run
                  \* of the same task, when this run repeats it

vars == <<remote, nextId, booting, invocations, pc, params, creds, droplet,
          changed, calls, now, end_time, outcome, slept, prev>>

provider == <<remote, nextId, booting>>

NoParams ==
    [state |-> "present", id |-> NoId, name |-> NoName,
     unique_name |-> FALSE, wait |-> TRUE, wait_timeout |-> 0]

NoOutcome ==
    [kind |-> "none", changed |-> FALSE, droplet |-> NoDroplet,
     msg |-> "", ref |-> 0]

NoPrev == [out |-> NoOutcome, calls |-> <<>>]

\* argument_spec: state has four choices, id is an int, name a str,
\* unique_name and wait are bools, wait_timeout an int; required_one_of
\* demands id or name.  wait_timeout is only read when wait is true.
ParamSpace ==
    { q \in [state : States, id : {NoId} \cup DropletIds,
             name : {NoName, "web"}, unique_name : BOOLEAN,
             wait : BOOLEAN, wait_timeout : WaitTimeouts \cup {DefaultWaitTimeout}] :
        /\ ~(q.id = NoId /\ q.name = NoName)
        /\ q.wait => q.wait_timeout \in WaitTimeouts
        /\ ~q.wait => q.wait_timeout = DefaultWaitTimeout }

\* An environment variable that is not set.
Unset == "(unset)"

\* The play of the EXAMPLES: api_token given, no environment variable.
DefaultCreds == [api_token |-> "XXX", DO_API_TOKEN |-> Unset, DO_API_KEY |-> Unset]

\* api_token is given or not ("" for None); each variable is not set, set
\* to the empty string, or set to a token.
CredSpace ==
    [api_token : {"", "XXX"}, DO_API_TOKEN : {Unset, "", "tok"},
     DO_API_KEY : {Unset, "", "key"}]

\* The tasks run under every combination of credential sources.
CredTasks ==
    { q \in ParamSpace : /\ q.id = NoId /\ ~q.unique_name /\ ~q.wait
                         /\ q.state \in {"present", "absent"} }

\* What a task is run with: any parameters with the credential given as in
\* the EXAMPLES, or one of CredTasks with any credential sources.
TaskInputs ==
    [q : ParamSpace, c : {DefaultCreds}] \cup [q : CredTasks, c : CredSpace]

\* --------------------------------------------------------- provider
Exists(id) == id \in DropletIds /\ remote[id] # NoDroplet

\* GET droplets/<id>: the droplet, or an error payload without 'droplet'.
ApiGet(id) == IF Exists(id) THEN remote[id] ELSE NoDroplet

\* GET droplets: the listing, in id order.
RECURSIVE ListFrom(_)
ListFrom(i) ==
    IF i > MaxId THEN <<>>
    ELSE IF remote[i] # NoDroplet THEN <<remote[i]>> \o ListFrom(i + 1)
    ELSE ListFrom(i + 1)

ApiList == ListFrom(1)

\* The provider boots a new droplet, or one whose power_on is in progress.
Activate(id) ==
    /\ Exists(id)
    /\ \/ remote[id].status = "new"
       \/ remote[id].status = "off" /\ id \in booting
    /\ remote' = [remote EXCEPT ![id].status = "active"]
    /\ booting' = booting \ {id}
    /\ UNCHANGED <<nextId, invocations, pc, params, droplet, changed, calls,
                   now, end_time, outcome, slept, prev, creds>>

\* ------------------------------------------------------------ helpers
\* get_droplet: `if droplet_id:` / `if name:`
HasId(id) == id # NoId
HasName(name) == name # NoName

\* The scan never returns a match.
NoMatchByName(listing, name) == NoDroplet

\* get_droplet: scan of the listing, first match wins.
RECURSIVE FirstByName(_, _)
FirstByName(listing, name) ==
    IF listing = <<>> THEN NoDroplet
    ELSE IF Head(listing).name = name THEN Head(listing)
    ELSE FirstByName(Tail(listing), name)

\* The payload is read leniently (.get('droplet')): nothing is raised.
NeverRaises(res) == FALSE

\* get_droplet: droplet.json['droplet'] raises KeyError on a payload that
\* carries no 'droplet'.
Raises(res) == res = NoDroplet

\* The status is compared with a word the API does not use.
IsRunning(d) == d.status = "running"

\* is_powered_on: res['status'] == 'active'
IsActive(d) == d.status = "active"

\* Power on whatever is not active.
PowerOnUnlessActive(d) == d.status # "active"

\* The power-on branch is never taken.
NeverPowerOn(d) == FALSE

\* ensure_powered_on: droplet['status'] == 'off'
NeedsPowerOn(d) == d.status = "off"

\* The unique_name flag is read inverted.
NameFallbackInverted(d, unique) == d = NoDroplet /\ ~unique

\* The name lookup is made whatever the id lookup gave.
NameFallbackAlways(d, unique) == TRUE

\* core: `if not droplet and module.params.get('unique_name')`
NameFallback(d, unique) == d = NoDroplet /\ unique

\* core: `if state in ('active', 'present')`
IsPresentState(s) == s \in {"active", "present"}

\* The alias 'deleted' is forgotten.
OnlyAbsent(s) == s = "absent"

\* core: `elif state in ('absent', 'deleted')`
IsAbsentState(s) == s \in {"absent", "deleted"}

\* core: changed = True
InitialChanged == TRUE

\* core: module.params['api_token'] or os.environ['DO_API_TOKEN'] or
\* os.environ['DO_API_KEY'].  `or` goes on to the next source only when the
\* one before it is falsy, and os.environ[...] raises KeyError for a
\* variable that is not set: missing names the variable of the KeyError.
ResolveToken(c) ==
    IF c.api_token # "" THEN [ok |-> TRUE, token |-> c.api_token, missing |-> ""]
    ELSE IF c.DO_API_TOKEN = Unset
         THEN [ok |-> FALSE, token |-> "", missing |-> "DO_API_TOKEN"]
    ELSE IF c.DO_API_TOKEN # ""
         THEN [ok |-> TRUE, token |-> c.DO_API_TOKEN, missing |-> ""]
    ELSE IF c.DO_API_KEY = Unset
         THEN [ok |-> FALSE, token |-> "", missing |-> "DO_API_KEY"]
    ELSE [ok |-> TRUE, token |-> c.DO_API_KEY, missing |-> ""]

\* The sleep is not cut to the time left.
FullInterval(t, e) == Interval

\* ensure_powered_on: min(20, end_time - time.time())
SleepTime(t, e) == Min(Interval, e - t)

\* One REST call enters the log: what was asked, from where, and the status
\* of the droplet in the response ("" when the response carries none).
Call(p, op, id, site, res) ==
    calls' = [calls EXCEPT ![p] =
                Append(@, [op |-> op, id |-> id, site |-> site, res |-> res])]

\* module.exit_json(...)
ExitJson(p, ch, d, m) ==
    /\ outcome' = [outcome EXCEPT ![p] =
                     [kind |-> "success", changed |-> ch, droplet |-> d,
                      msg |-> m, ref |-> 0]]
    /\ pc' = [pc EXCEPT ![p] = "done"]

\* main: except Exception as e: module.fail_json(msg=str(e))
FailJson(p, m, r) ==
    /\ outcome' = [outcome EXCEPT ![p] =
                     [kind |-> "failure", changed |-> FALSE,
                      droplet |-> NoDroplet, msg |-> m, ref |-> r]]
    /\ pc' = [pc EXCEPT ![p] = "done"]

\* ------------------------------------------------------------- actions
Init ==
    /\ \E n \in 0..MaxInitial :
         /\ nextId = n + 1
         /\ remote \in [DropletIds -> [id : DropletIds, name : Names,
                                       status : {"active", "off"}] \cup {NoDroplet}]
         /\ \A i \in DropletIds :
              IF i <= n THEN remote[i] # NoDroplet /\ remote[i].id = i
              ELSE remote[i] = NoDroplet
    /\ booting = {}
    /\ invocations = 0
    /\ pc = [p \in Procs |-> "idle"]
    /\ params = [p \in Procs |-> NoParams]
    /\ creds = [p \in Procs |-> DefaultCreds]
    /\ droplet = [p \in Procs |-> NoDroplet]
    /\ changed = [p \in Procs |-> FALSE]
    /\ calls = [p \in Procs |-> <<>>]
    /\ now = [p \in Procs |-> 0]
    /\ end_time = [p \in Procs |-> 0]
    /\ outcome = [p \in Procs |-> NoOutcome]
    /\ slept = [p \in Procs |-> 0]
    /\ prev = [p \in Procs |-> NoPrev]

\* main() builds the module and enters core.
Begin(p, q, c, pr) ==
    /\ invocations < MaxInvocations
    /\ invocations' = invocations + 1
    /\ params' = [params EXCEPT ![p] = q]
    /\ creds' = [creds EXCEPT ![p] = c]
    /\ prev' = [prev EXCEPT ![p] = pr]
    /\ droplet' = [droplet EXCEPT ![p] = NoDroplet]
    /\ changed' = [changed EXCEPT ![p] = InitialChanged]
    /\ calls' = [calls EXCEPT ![p] = <<>>]
    /\ now' = [now EXCEPT ![p] = 0]
    /\ end_time' = [end_time EXCEPT ![p] = 0]
    /\ slept' = [slept EXCEPT ![p] = 0]
    /\ outcome' = [outcome EXCEPT ![p] = NoOutcome]
    /\ pc' = [pc EXCEPT ![p] = "credentials"]
    /\ UNCHANGED provider

\* A task of the play runs the module with its parameters.
Start(p) ==
    /\ pc[p] = "idle"
    /\ \E t \in TaskInputs : Begin(p, t.q, t.c, NoPrev)

\* The play is run again: the same task, identical parameters; the earlier
\* report is kept for comparison.
StartAgain(p) ==
    /\ pc[p] = "done"
    /\ Begin(p, params[p], creds[p], [out |-> outcome[p], calls |-> calls[p]])

\* core: the api_token is resolved (or fail_json 'Unable to load ...'),
\* then changed = True, state read, the Rest client built.
Credentials(p) ==
    /\ pc[p] = "credentials"
    /\ IF ResolveToken(creds[p]).ok
       THEN /\ pc' = [pc EXCEPT ![p] = "locate_id"]
            /\ UNCHANGED outcome
       ELSE FailJson(p, "Unable to load", 0)
    /\ UNCHANGED <<provider, invocations, params, droplet, changed, calls, now,
                   end_time, slept, prev, creds>>

\* core: droplet = get_droplet(rest, droplet_id=module.params.get('id'))
LocateById(p) ==
    /\ pc[p] = "locate_id"
    /\ IF HasId(params[p].id)
       THEN /\ Call(p, "get", params[p].id, "locate", ApiGet(params[p].id).status)
            /\ IF ~Raises(ApiGet(params[p].id))
               THEN /\ droplet' = [droplet EXCEPT ![p] = ApiGet(params[p].id)]
                    /\ pc' = [pc EXCEPT ![p] = "locate_name"]
                    /\ UNCHANGED outcome
               ELSE \* droplet.json['droplet'] raises KeyError
                    /\ FailJson(p, "KeyError", 0)
                    /\ UNCHANGED droplet
       ELSE /\ droplet' = [droplet EXCEPT ![p] = NoDroplet]
            /\ pc' = [pc EXCEPT ![p] = "locate_name"]
            /\ UNCHANGED <<calls, outcome>>
    /\ UNCHANGED <<provider, invocations, params, changed, now, end_time, slept, prev, creds>>

\* core: the name lookup, only `if not droplet and unique_name`, then the
\* branch on state.
LocateByName(p) ==
    /\ pc[p] = "locate_name"
    /\ LET byName == NameFallback(droplet[p], params[p].unique_name)
           listed == byName /\ HasName(params[p].name)
           found  == IF listed THEN FirstByName(ApiList, params[p].name)
                     ELSE IF byName THEN NoDroplet
                     ELSE droplet[p]
       IN /\ IF listed THEN Call(p, "list", 0, "locate", found.status) ELSE UNCHANGED calls
          /\ droplet' = [droplet EXCEPT ![p] = found]
          /\ pc' = [pc EXCEPT ![p] =
                      IF IsPresentState(params[p].state)
                      THEN (IF found = NoDroplet THEN "create" ELSE "check")
                      ELSE IF IsAbsentState(params[p].state) THEN "absent"
                      ELSE "done"]
    /\ UNCHANGED <<provider, invocations, params, changed, now, end_time,
                   outcome, slept, prev, creds>>

\* POST droplets: the provider creates the droplet and answers with it
\* (status new), or answers an error payload carrying 'message'; it has no
\* id left to hand out once nextId exceeds MaxId.
CreateResponses(name) ==
    {NoDroplet} \cup
    (IF nextId <= MaxId
     THEN {[id |-> nextId, name |-> name, status |-> "new"]} ELSE {})

\* The 'message' of the create response is not looked at.
MessageIgnored(res) == FALSE

\* core: `if 'message' in res.json`
HasMessage(res) == res = NoDroplet

\* core: `if not droplet:` rest.post("droplets", ...), then fail_json on
\* 'message' (module.fail_json(msg=droplet.json) with droplet False raises
\* AttributeError, reported by main) or droplet = res.json['droplet'].
Create(p) ==
    /\ pc[p] = "create"
    /\ \E res \in CreateResponses(params[p].name) :
         /\ Call(p, "create", 0, "core", res.status)
         /\ remote' = IF res = NoDroplet THEN remote
                      ELSE [remote EXCEPT ![res.id] = res]
         /\ nextId' = IF res = NoDroplet THEN nextId ELSE nextId + 1
         /\ IF HasMessage(res)
            THEN /\ FailJson(p, "AttributeError", 0)
                 /\ UNCHANGED droplet
            ELSE /\ droplet' = [droplet EXCEPT ![p] = res]
                 /\ pc' = [pc EXCEPT ![p] = "check"]
                 /\ UNCHANGED outcome
    /\ UNCHANGED <<booting, invocations, params, changed, now, end_time, slept, prev, creds>>

\* core: `if is_powered_on(rest, droplet['id']): changed = False`, and the
\* exit when nothing is left to do.
CheckPoweredOn(p) ==
    /\ pc[p] = "check"
    /\ Call(p, "get", droplet[p].id, "core", ApiGet(droplet[p].id).status)
    /\ LET res == ApiGet(droplet[p].id)
       IN IF Raises(res)
          THEN /\ FailJson(p, "KeyError", 0)
               /\ UNCHANGED changed
          ELSE LET ch == IF IsActive(res) THEN FALSE ELSE changed[p]
               IN /\ changed' = [changed EXCEPT ![p] = ch]
                  /\ IF ch
                     THEN /\ pc' = [pc EXCEPT ![p] = "ensure"]
                          /\ UNCHANGED outcome
                     ELSE ExitJson(p, ch, droplet[p], "")
    /\ UNCHANGED <<provider, invocations, params, droplet, now, end_time, slept, prev, creds>>

\* The wait flag is not looked at: the poll loop is always entered.
AfterPowerAlwaysPolls(p) ==
    /\ pc' = [pc EXCEPT ![p] = "poll"]
    /\ end_time' = [end_time EXCEPT ![p] = now[p] + params[p].wait_timeout]
    /\ UNCHANGED outcome

\* Where ensure_powered_on goes once power is dealt with: into the poll
\* loop (end_time = time.time() + wait_timeout) or back to core's exit_json.
AfterPower(p) ==
    IF params[p].wait
    THEN /\ pc' = [pc EXCEPT ![p] = "poll"]
         /\ end_time' = [end_time EXCEPT ![p] = now[p] + params[p].wait_timeout]
         /\ UNCHANGED outcome
    ELSE /\ ExitJson(p, changed[p], droplet[p], "")
         /\ UNCHANGED end_time

\* ensure_powered_on: `if is_powered_on(...): return`, then the test of the
\* droplet's recorded status.
EnsureCheck(p) ==
    /\ pc[p] = "ensure"
    /\ Call(p, "get", droplet[p].id, "ensure", ApiGet(droplet[p].id).status)
    /\ LET res == ApiGet(droplet[p].id)
       IN IF Raises(res)
          THEN /\ FailJson(p, "KeyError", 0)
               /\ UNCHANGED end_time
          ELSE IF IsActive(res)
          THEN /\ ExitJson(p, changed[p], droplet[p], "")
               /\ UNCHANGED end_time
          ELSE IF NeedsPowerOn(droplet[p])
          THEN /\ pc' = [pc EXCEPT ![p] = "power_on"]
               /\ UNCHANGED <<end_time, outcome>>
          ELSE AfterPower(p)
    /\ UNCHANGED <<provider, invocations, params, droplet, changed, now, slept, prev, creds>>

\* power_on: POST droplets/<id>/actions {'type': 'power_on'}; the response
\* is not read.
PowerOn(p) ==
    /\ pc[p] = "power_on"
    /\ Call(p, "power_on", droplet[p].id, "ensure", "")
    /\ booting' = IF Exists(droplet[p].id) /\ remote[droplet[p].id].status = "off"
                  THEN booting \cup {droplet[p].id} ELSE booting
    /\ AfterPower(p)
    /\ UNCHANGED <<remote, nextId, invocations, params, droplet, changed, now,
                   slept, prev, creds>>

\* ensure_powered_on: `while time.time() < end_time:` and the sleep, or the
\* TimeoutError after the loop.
PollSleep(p) ==
    /\ pc[p] = "poll"
    /\ IF now[p] < end_time[p]
       THEN /\ now' = [now EXCEPT ![p] = @ + SleepTime(now[p], end_time[p])]
            /\ slept' = [slept EXCEPT ![p] = @ + SleepTime(now[p], end_time[p])]
            /\ pc' = [pc EXCEPT ![p] = "poll_fetch"]
            /\ UNCHANGED outcome
       ELSE /\ FailJson(p, "Timeout", droplet[p].id)
            /\ UNCHANGED <<now, slept>>
    /\ UNCHANGED <<provider, invocations, params, droplet, changed, calls,
                   end_time, prev, creds>>

\* ensure_powered_on: `if is_powered_on(inst, droplet['id']): return` in the
\* loop; the request itself takes no time or one time step.
PollFetch(p) ==
    /\ pc[p] = "poll_fetch"
    /\ Call(p, "get", droplet[p].id, "poll", ApiGet(droplet[p].id).status)
    /\ \E lat \in {0, TimeStep} : now' = [now EXCEPT ![p] = @ + lat]
    /\ LET res == ApiGet(droplet[p].id)
       IN IF Raises(res)
          THEN FailJson(p, "KeyError", 0)
          ELSE IF IsActive(res)
          THEN ExitJson(p, changed[p], droplet[p], "")
          ELSE /\ pc' = [pc EXCEPT ![p] = "poll"]
               /\ UNCHANGED outcome
    /\ UNCHANGED <<provider, invocations, params, droplet, changed, end_time,
                   slept, prev, creds>>

\* core: `elif state in ('absent', 'deleted')`.  The delete response is not
\* read; the provider removes the droplet or refuses.
Absent(p) ==
    /\ pc[p] = "absent"
    /\ IF droplet[p] = NoDroplet
       THEN /\ ExitJson(p, FALSE, NoDroplet, "Droplet not found.")
            /\ UNCHANGED <<calls, remote, booting>>
       ELSE /\ Call(p, "delete", droplet[p].id, "core", "")
            /\ \/ /\ remote' = [remote EXCEPT ![droplet[p].id] = NoDroplet]
                  /\ booting' = booting \ {droplet[p].id}
               \/ UNCHANGED <<remote, booting>>
            /\ ExitJson(p, TRUE, NoDroplet, "")
    /\ UNCHANGED <<nextId, invocations, params, droplet, changed, now,
                   end_time, slept, prev, creds>>

Step(p) ==
    \/ Credentials(p)
    \/ LocateById(p)
    \/ LocateByName(p)
    \/ Create(p)
    \/ CheckPoweredOn(p)
    \/ EnsureCheck(p)
    \/ PowerOn(p)
    \/ PollSleep(p)
    \/ PollFetch(p)
    \/ Absent(p)

\* One task at a time: the invocations of a play run one after the other.
Next ==
    \/ \E p \in SeqProcs : Start(p)
    \/ \E p \in SeqProcs : StartAgain(p)
    \/ \E p \in SeqProcs : Step(p)
    \/ \E id \in DropletIds : Activate(id)

Spec == Init /\ [][Next]_vars

\* ------------------------------------------------------ reading the log
Idx(log) == DOMAIN log
CountOp(log, op) == Cardinality({i \in Idx(log) : log[i].op = op})
CountSite(log, site) == Cardinality({i \in Idx(log) : log[i].site = site})
Mutating == {"create", "power_on", "delete"}
NoMutation(log) == \A i \in Idx(log) : log[i].op \notin Mutating

\* What the task asked for, in the words of the documentation.
WantsPresent(q) == q.state \in {"present", "active"}
WantsAbsent(q) == q.state \in {"absent", "deleted"}

Finished(p) == pc[p] = "done"
Succeeded(p) == Finished(p) /\ outcome[p].kind = "success"
Failed(p) == Finished(p) /\ outcome[p].kind = "failure"

\* The invocation supplied an id and the fetch by id answered an error
\* payload (no droplet).
IdLookupFailed(p) ==
    /\ HasId(params[p].id)
    /\ calls[p] # <<>>
    /\ calls[p][1] = [op |-> "get", id |-> params[p].id, site |-> "locate",
                      res |-> ""]

\* The invocation's identity is stable: an id, or a name made unique.
StableIdentity(q) == HasId(q.id) \/ (HasName(q.name) /\ q.unique_name)

\* This run repeats a run of the same task that ended in success.
RepeatsSuccess(p) == Finished(p) /\ prev[p].out.kind = "success"

EnteredEnsure(log) == CountSite(log, "ensure") > 0

\* ---------------------------------------------------------------- C1
\* C1 as stated: for a present task with wait and a stable identity, run
\* twice in a row with success, the first run reports changed=true, the
\* second changed=false with the same droplet id and no create or power-on.
C1_AsStated ==
    \A p \in Procs :
        ( /\ RepeatsSuccess(p)
          /\ WantsPresent(params[p])
          /\ params[p].wait
          /\ StableIdentity(params[p]) )
        => /\ prev[p].out.changed
           /\ Succeeded(p)
           /\ ~outcome[p].changed
           /\ outcome[p].droplet.id = prev[p].out.droplet.id
           /\ CountOp(calls[p], "create") = 0
           /\ CountOp(calls[p], "power_on") = 0

\* C1 (amended): for a present task with wait and a stable identity, run
\* twice in a row, the first run ending in success: the second run succeeds
\* with changed=false, carries the same droplet id and issues no create and
\* no power-on call; the first run reported changed=true exactly when core's
\* status check found the droplet not yet active, that is when it entered
\* ensure_powered_on (a droplet that was already active gives changed=false
\* in both runs).
C1_Idempotence ==
    \A p \in Procs :
        ( /\ RepeatsSuccess(p)
          /\ WantsPresent(params[p])
          /\ params[p].wait
          /\ StableIdentity(params[p]) )
        => /\ prev[p].out.changed <=> EnteredEnsure(prev[p].calls)
           /\ Succeeded(p)
           /\ ~outcome[p].changed
           /\ outcome[p].droplet.id = prev[p].out.droplet.id
           /\ outcome[p].droplet.id \in DropletIds
           /\ CountOp(calls[p], "create") = 0
           /\ CountOp(calls[p], "power_on") = 0

\* A task by unique name created its droplet, waited for it and reported
\* changed=true; run again it found the same droplet and changed nothing.
C1_Witness ==
    \E p \in Procs :
        /\ RepeatsSuccess(p)
        /\ WantsPresent(params[p])
        /\ params[p].wait /\ params[p].unique_name /\ ~HasId(params[p].id)
        /\ CountOp(prev[p].calls, "create") = 1
        /\ CountSite(prev[p].calls, "poll") > 0
        /\ prev[p].out.changed
        /\ Succeeded(p) /\ ~outcome[p].changed
        /\ outcome[p].droplet.id = prev[p].out.droplet.id

\* ---------------------------------------------------------------- C2
\* C2: with state present and an id that matches no droplet, the invocation
\* issues exactly one create call and succeeds with changed=true and the
\* new droplet (its new id) in the Outcome.
C2_CreateOnUnknownId ==
    \A p \in Procs :
        ( /\ Finished(p)
          /\ WantsPresent(params[p])
          /\ IdLookupFailed(p) )
        => /\ Succeeded(p)
           /\ outcome[p].changed
           /\ CountOp(calls[p], "create") = 1
           /\ outcome[p].droplet.id \in DropletIds
           /\ outcome[p].droplet.id # params[p].id

C4_AbsentUnknownId ==
    \A p \in Procs :
        ( /\ Finished(p)
          /\ WantsAbsent(params[p])
          /\ IdLookupFailed(p) )
        => /\ Succeeded(p)
           /\ ~outcome[p].changed
           /\ outcome[p].droplet = NoDroplet
           /\ NoMutation(calls[p])

\* ---------------------------------------------------------------- C5
NamedIn(r, name) == {i \in DropletIds : r[i] # NoDroplet /\ r[i].name = name}

\* This step appends a create call to the invocation's log.
IssuesCreate(p) ==
    /\ Len(calls'[p]) = Len(calls[p]) + 1
    /\ calls'[p][Len(calls'[p])].op = "create"

\* C5: invocations run one after the other.  A present task with
\* unique_name=true never issues its create call while a droplet of the
\* requested name exists, and no step taken while such a task is the one
\* running raises the number of droplets of that name from at most one to
\* more than one.
C5_UniqueName ==
    [][ \A p \in Procs :
          ( /\ params[p].unique_name
            /\ HasName(params[p].name)
            /\ WantsPresent(params[p])
            /\ pc[p] # "idle" )
          => /\ IssuesCreate(p) => NamedIn(remote, params[p].name) = {}
             /\ Cardinality(NamedIn(remote, params[p].name)) <= 1
                  => Cardinality(NamedIn(remote', params[p].name)) <= 1 ]_vars

\* A unique-name task created its droplet, was run again, listed the
\* droplets, found that one and created nothing: one droplet of the name.
C5_Witness ==
    \E p \in Procs :
        /\ params[p].unique_name /\ WantsPresent(params[p])
        /\ CountOp(prev[p].calls, "create") = 1
        /\ prev[p].out.kind = "success"
        /\ Finished(p)
        /\ CountOp(calls[p], "list") = 1
        /\ CountOp(calls[p], "create") = 0
        /\ Cardinality(NamedIn(remote, params[p].name)) = 1

\* ---------------------------------------------------------------- C6
\* C6: an invocation with unique_name=false and an id supplied never issues
\* the listing call; its only lookup is one fetch of that id, whether the
\* fetch finds the droplet or not.
C6_NameFallbackGating ==
    \A p \in Procs :
        (~params[p].unique_name /\ HasId(params[p].id))
        => /\ CountOp(calls[p], "list") = 0
           /\ CountSite(calls[p], "locate") <= 1
           /\ \A i \in Idx(calls[p]) :
                calls[p][i].site = "locate"
                => calls[p][i].op = "get" /\ calls[p][i].id = params[p].id
           /\ pc[p] \notin {"idle", "credentials", "locate_id"}
                => CountSite(calls[p], "locate") = 1

\* A task without unique_name found its droplet by id although its name is
\* that of another droplet, and ended without listing.
C6_Witness ==
    \E p \in Procs :
        /\ Succeeded(p)
        /\ ~params[p].unique_name /\ HasId(params[p].id) /\ HasName(params[p].name)
        /\ droplet[p].id = params[p].id
        /\ droplet[p].name # params[p].name
        /\ NamedIn(remote, params[p].name) # {}

\* ---------------------------------------------------------------- C7
\* state present, wait, a name, no id, unique_name, and the listing showed
\* no droplet of that name.
C7_Scenario(p) ==
    /\ WantsPresent(params[p])
    /\ params[p].wait /\ params[p].unique_name
    /\ HasName(params[p].name) /\ ~HasId(params[p].id)
    /\ calls[p] # <<>>
    /\ calls[p][1].op = "list" /\ calls[p][1].res = ""

NeverSawActive(log) ==
    \A i \in Idx(log) : log[i].op = "get" => log[i].res # "active"

LastCall(log) == log[Len(log)]

\* C7 as stated: in that scenario a successful invocation has issued
\* exactly one create call and exactly one power-on call and reports
\* changed=true.
C7_AsStated ==
    \A p \in Procs :
        (C7_Scenario(p) /\ Succeeded(p))
        => /\ CountOp(calls[p], "create") = 1
           /\ CountOp(calls[p], "power_on") = 1
           /\ outcome[p].changed

\* C7 (amended): in that scenario the invocation issues exactly one create
\* call and no power-on call (the created droplet's recorded status is new,
\* and power-on is issued only for status off).  If core's status check
\* finds the new droplet not active it polls until a fetch shows active or
\* wait_timeout has elapsed; success then means the last fetch showed
\* active and changed=true is reported, and a timeout means the deadline
\* was reached without any fetch showing active.  If the check already
\* finds it active the report is changed=false.
C7_CreateAndPoll ==
    \A p \in Procs :
        C7_Scenario(p)
        => /\ CountOp(calls[p], "create") <= 1
           /\ CountOp(calls[p], "power_on") = 0
           /\ CountSite(calls[p], "poll") > 0 => EnteredEnsure(calls[p])
           /\ Succeeded(p)
                => /\ CountOp(calls[p], "create") = 1
                   /\ outcome[p].droplet = [id |-> outcome[p].droplet.id,
                                            name |-> params[p].name,
                                            status |-> "new"]
                   /\ LastCall(calls[p]).op = "get"
                   /\ LastCall(calls[p]).res = "active"
                   /\ outcome[p].changed <=> EnteredEnsure(calls[p])
           /\ Failed(p)
                => \/ LastCall(calls[p]).op = "create" /\ LastCall(calls[p]).res = ""
                   \/ /\ outcome[p].msg = "Timeout"
                      /\ CountOp(calls[p], "create") = 1
                      /\ now[p] >= end_time[p]
                      /\ NeverSawActive(calls[p])

\* The scenario ran to success: one create, at least two polling fetches,
\* changed=true.
C7_Witness ==
    \E p \in Procs :
        /\ C7_Scenario(p) /\ Succeeded(p)
        /\ CountOp(calls[p], "create") = 1
        /\ CountSite(calls[p], "poll") >= 2
        /\ outcome[p].changed

\* ---------------------------------------------------------------- C8
AfterCreate(c) ==
    \/ c.op = "power_on"
    \/ c.site \in {"ensure", "poll"}
    \/ c.op = "get" /\ c.site = "core"

\* C8 as stated: an invocation that created a droplet and polled has a
\* power-on call after its create call and before its first polling fetch.
C8_AsStated ==
    \A p \in Procs :
        (CountOp(calls[p], "create") > 0 /\ CountSite(calls[p], "poll") > 0)
        => \E j \in Idx(calls[p]) :
             /\ calls[p][j].op = "power_on"
             /\ \A i \in Idx(calls[p]) : calls[p][i].op = "create" => i < j
             /\ \A k \in Idx(calls[p]) : calls[p][k].site = "poll" => j < k

\* C8 (amended): in every invocation the create call, if any, precedes
\* every status fetch and power-on call that follows the lookup, and a
\* power-on call, if any, precedes the first fetch of the polling loop.  An
\* invocation that creates a droplet issues no power-on call; one that
\* polls for a droplet recorded as off has issued exactly one.
C8_Ordering ==
    \A p \in Procs :
        /\ \A i, j \in Idx(calls[p]) :
             (calls[p][i].op = "create" /\ AfterCreate(calls[p][j])) => i < j
        /\ \A i, j \in Idx(calls[p]) :
             (calls[p][i].op = "power_on" /\ calls[p][j].site = "poll") => i < j
        /\ CountOp(calls[p], "create") > 0 => CountOp(calls[p], "power_on") = 0
        /\ (droplet[p].status = "off" /\ CountSite(calls[p], "poll") > 0)
             => CountOp(calls[p], "power_on") = 1

\* A located droplet that was off has been powered on and then polled.
C8_Witness ==
    \E p \in Procs :
        /\ droplet[p].status = "off"
        /\ CountOp(calls[p], "power_on") = 1
        /\ CountSite(calls[p], "poll") >= 2
        /\ Succeeded(p)

\* ---------------------------------------------------------------- C9
\* C9: with wait=true the polling loop is bounded.  Each sleep lasts at
\* most 20 seconds, more than none, and ends no later than the deadline;
\* the time slept stays within wait_timeout + 20 seconds and the loop makes
\* at most wait_timeout / 20 + 1 fetches, so it cannot run forever.  An
\* invocation that entered ensure_powered_on with wait and never saw the
\* status active ends in a failure carrying the TimeoutError, which names
\* the droplet id, raised once the deadline is reached.
C9_TimeoutBound ==
    /\ [](\A p \in Procs :
            /\ slept[p] <= params[p].wait_timeout + Interval
            /\ pc[p] \in {"poll", "poll_fetch"} => params[p].wait
            /\ pc[p] = "poll_fetch" => now[p] <= end_time[p]
            /\ CountSite(calls[p], "poll") <= (params[p].wait_timeout \div Interval) + 1
            /\ (Failed(p) /\ outcome[p].msg = "Timeout")
                 => /\ outcome[p].ref = droplet[p].id
                    /\ outcome[p].ref \in DropletIds
                    /\ now[p] >= end_time[p]
                    /\ NeverSawActive(calls[p])
            /\ ( /\ Finished(p) /\ params[p].wait
                 /\ EnteredEnsure(calls[p])
                 /\ NeverSawActive(calls[p]) )
                 => Failed(p) /\ outcome[p].msg = "Timeout")
    /\ [][ \A p \in Procs :
             slept'[p] > slept[p]
             => /\ slept'[p] - slept[p] <= Interval
                /\ now'[p] - now[p] = slept'[p] - slept[p]
                /\ now'[p] <= end_time[p] ]_vars

\* A wait of 30 seconds ran out: a sleep of 20, a fetch, a sleep shrunk to
\* 10, a fetch, then the TimeoutError.
C9_Witness ==
    \E p \in Procs :
        /\ Failed(p) /\ outcome[p].msg = "Timeout"
        /\ params[p].wait_timeout = 30
        /\ CountSite(calls[p], "poll") = 2
        /\ slept[p] = 30

\* --------------------------------------------------------------- C10
\* C10: an absent task that located a droplet issues exactly one delete
\* call, for that droplet's id, issues no create, no power-on and no status
\* fetch after the lookup, and reports success with changed=true whether or
\* not the provider removed the droplet.
C10_DeleteExisting ==
    \A p \in Procs :
        WantsAbsent(params[p])
        => /\ CountOp(calls[p], "create") = 0
           /\ CountOp(calls[p], "power_on") = 0
           /\ \A i \in Idx(calls[p]) : calls[p][i].site \in {"locate", "core"}
           /\ \A i \in Idx(calls[p]) : calls[p][i].site = "core" => calls[p][i].op = "delete"
           /\ (Finished(p) /\ droplet[p] # NoDroplet)
                => /\ Succeeded(p)
                   /\ outcome[p].changed
                   /\ CountOp(calls[p], "delete") = 1
                   /\ LastCall(calls[p]).op = "delete"
                   /\ LastCall(calls[p]).id = droplet[p].id

\* A deleted task found its droplet by name, issued the delete, the
\* provider left the droplet in place, and changed=true was reported.
C10_Witness ==
    \E p \in Procs :
        /\ params[p].state = "deleted"
        /\ Succeeded(p) /\ outcome[p].changed
        /\ CountOp(calls[p], "list") = 1
        /\ CountOp(calls[p], "delete") = 1
        /\ Exists(droplet[p].id)

\* --------------------------------------------------------------- C11
ConfigFailed(p) == Failed(p) /\ outcome[p].msg = "Unable to load"

\* C11: the credential is api_token when given, otherwise DO_API_TOKEN,
\* otherwise DO_API_KEY, either variable alone being enough; the invocation
\* fails with the configuration failure exactly when the parameter and both
\* variables are absent, and then without having issued any call.  (Stated
\* for sources that are absent or non-empty.)
C11_CredentialResolution ==
    \A p \in Procs :
        ( /\ pc[p] \notin {"idle", "credentials"}
          /\ creds[p].DO_API_TOKEN # ""
          /\ creds[p].DO_API_KEY # "" )
        => LET c == creds[p]
               given == c.api_token # ""
               tokSet == c.DO_API_TOKEN # Unset
               keySet == c.DO_API_KEY # Unset
           IN /\ ConfigFailed(p) <=> (~given /\ ~tokSet /\ ~keySet)
              /\ ConfigFailed(p) => calls[p] = <<>>
              /\ ~ConfigFailed(p)
                   => ResolveToken(c).token =
                        IF given THEN c.api_token
                        ELSE IF tokSet THEN c.DO_API_TOKEN ELSE c.DO_API_KEY

\* --------------------------------------------------------------- C12
\* The calls whose response carries a droplet snapshot.
Snapshots(log) == {i \in Idx(log) : log[i].res # ""}

\* C12: on every successful end of a present task the droplet of the
\* Outcome is the most recently fetched snapshot: its status is the status
\* in the last response that carried the droplet, and status active when
\* the invocation polled.
C12_LatestSnapshot ==
    \A p \in Procs :
        (Succeeded(p) /\ WantsPresent(params[p]))
        => /\ \A i \in Snapshots(calls[p]) :
                (\A j \in Snapshots(calls[p]) : j <= i)
                => outcome[p].droplet.status = calls[p][i].res
           /\ CountSite(calls[p], "poll") > 0
                => outcome[p].droplet.status = "active"

\* --------------------------------------------------------------- C13
\* The lookup of this invocation found a droplet.
Located(log) == log # <<>> /\ log[1].site = "locate" /\ log[1].res # ""

\* core's status check (is_powered_on) has been made and showed this status.
CoreCheckShows(log, st) ==
    \E i \in Idx(log) : log[i].op = "get" /\ log[i].site = "core" /\ log[i].res = st

\* C13: a present task that located an existing droplet whose re-fetched
\* status is active ends there: success, changed=false, the located droplet
\* in the Outcome, and no create, power-on or delete call; the status
\* fetch is its last call.
C13_IdempotenceCheckpoint ==
    \A p \in Procs :
        ( /\ WantsPresent(params[p])
          /\ Located(calls[p])
          /\ CoreCheckShows(calls[p], "active") )
        => /\ Succeeded(p)
           /\ ~outcome[p].changed
           /\ outcome[p].droplet = droplet[p]
           /\ outcome[p].droplet.id \in DropletIds
           /\ NoMutation(calls[p])
           /\ LastCall(calls[p]).site = "core"

\* A droplet recorded as off at the lookup was active at the status check:
\* changed=false, nothing issued, the droplet reported.
C13_Witness ==
    \E p \in Procs :
        /\ WantsPresent(params[p])
        /\ Located(calls[p])
        /\ CoreCheckShows(calls[p], "active")
        /\ Succeeded(p)
        /\ outcome[p].droplet.id = params[p].id
        /\ HasId(params[p].id)

\* --------------------------------------------------------------- C14
\* Any request the module reads the answer of may be answered with an error
\* payload (no 'droplet', no 'droplets'): get_droplet's subscript raises
\* KeyError, which main reports.
ApiError(p) ==
    /\ \/ /\ pc[p] = "locate_id" /\ HasId(params[p].id)
          /\ Call(p, "get", params[p].id, "locate", "error")
       \/ /\ pc[p] = "locate_name"
          /\ NameFallback(droplet[p], params[p].unique_name)
          /\ HasName(params[p].name)
          /\ Call(p, "list", 0, "locate", "error")
       \/ /\ pc[p] = "check"
          /\ Call(p, "get", droplet[p].id, "core", "error")
       \/ /\ pc[p] = "ensure"
          /\ Call(p, "get", droplet[p].id, "ensure", "error")
       \/ /\ pc[p] = "poll_fetch"
          /\ Call(p, "get", droplet[p].id, "poll", "error")
    /\ FailJson(p, "KeyError", 0)
    /\ UNCHANGED <<provider, invocations, params, creds, droplet, changed, now,
                   end_time, slept, prev>>

\* The power_on request is refused: its response is not read, so the
\* invocation goes on as if it had been accepted.
PowerOnError(p) ==
    /\ pc[p] = "power_on"
    /\ Call(p, "power_on", droplet[p].id, "ensure", "")
    /\ AfterPower(p)
    /\ UNCHANGED <<provider, invocations, params, creds, droplet, changed, now,
                   slept, prev>>

NextFaulty ==
    \/ \E p \in SeqProcs : Start(p)
    \/ \E p \in SeqProcs : Step(p)
    \/ \E id \in DropletIds : Activate(id)
    \/ \E p \in SeqProcs : ApiError(p)
    \/ \E p \in SeqProcs : PowerOnError(p)

\* One invocation, of any task, against an API that may answer any request
\* with an error.
SpecFaulty == Init /\ [][NextFaulty]_vars

\* A call whose answer ends the invocation: a fetch or listing answered
\* with an error payload, or a create answered with 'message'.
FatalCall(c) ==
    \/ c.op \in {"get", "list"} /\ c.res = "error"
    \/ c.op = "get" /\ c.res = ""
    \/ c.op = "create" /\ c.res = ""

\* A fatal condition has occurred in this invocation: no credential, a
\* fatal call, or a wait that ended without any fetch showing active.
FatalCondition(p) ==
    \/ pc[p] \notin {"idle", "credentials"} /\ ~ResolveToken(creds[p]).ok
    \/ \E i \in Idx(calls[p]) : FatalCall(calls[p][i])
    \/ /\ Finished(p) /\ params[p].wait /\ WantsPresent(params[p])
       /\ EnteredEnsure(calls[p]) /\ NeverSawActive(calls[p])

\* C14: every invocation ends with exactly one report.  While it runs there
\* is none; once it has ended there is one, a success or a failure, and it
\* is never replaced; a fatal condition (no credential, an error payload
\* from a lookup, status fetch or create, a timeout) ends the invocation at
\* once in a failure, and a failure is reported only after one.
C14_OneTerminalReport ==
    /\ [](\A p \in Procs :
            /\ outcome[p].kind \in {"none", "success", "failure"}
            /\ Finished(p) <=> outcome[p].kind # "none"
            /\ FatalCondition(p) <=> Failed(p)
            /\ \A i \in Idx(calls[p]) :
                 FatalCall(calls[p][i]) => i = Len(calls[p]))
    /\ [][ \A p \in Procs :
             outcome[p].kind # "none"
             => outcome'[p] = outcome[p] /\ pc'[p] = "done" ]_vars

\* A polling fetch was answered with an error payload after the droplet
\* had been created: the invocation failed, the droplet stays.
C14_Witness ==
    \E p \in Procs :
        /\ Failed(p)
        /\ CountOp(calls[p], "create") = 1
        /\ LastCall(calls[p]) = [op |-> "get", id |-> droplet[p].id,
                                 site |-> "poll", res |-> "error"]
        /\ Exists(droplet[p].id)

\* --------------------------------------------------------------- C15
\* C15: an invocation issues at most one create call, and a create call
\* answered with an error payload ('message') is its last call: the
\* invocation ends there in a failure report, with no status fetch, no
\* power-on, no delete and no second create, and no droplet was made.
C15_CreateFailureFatal ==
    \A p \in Procs :
        /\ CountOp(calls[p], "create") <= 1
        /\ \A i \in Idx(calls[p]) :
             (calls[p][i].op = "create" /\ calls[p][i].res = "")
             => /\ i = Len(calls[p])
                /\ Failed(p)
                /\ droplet[p] = NoDroplet

\* A unique-name task listed the droplets, found none of its name, issued
\* the create, got an error payload and failed, although the provider still
\* had an id to hand out.
C15_Witness ==
    \E p \in Procs :
        /\ Failed(p)
        /\ Len(calls[p]) = 2
        /\ calls[p][1].op = "list"
        /\ LastCall(calls[p]).op = "create" /\ LastCall(calls[p]).res = ""
        /\ nextId <= MaxId
        /\ NamedIn(remote, params[p].name) = {}

C17_NoWaitReturns ==
    \A p \in Procs :
        (WantsPresent(params[p]) /\ ~params[p].wait)
        => /\ CountSite(calls[p], "poll") = 0
           /\ slept[p] = 0 /\ now[p] = 0 /\ end_time[p] = 0
           /\ pc[p] \notin {"poll", "poll_fetch"}
           /\ outcome[p].msg # "Timeout"
           /\ \A i \in Idx(calls[p]) :
                calls[p][i].op = "power_on" => i = Len(calls[p])
           /\ ( /\ pc[p] # "power_on"
                /\ \E i \in Idx(calls[p]) :
                     /\ calls[p][i].site = "ensure" /\ calls[p][i].op = "get"
                     /\ calls[p][i].res \notin {"", "active"} )
                => /\ Succeeded(p)
                   /\ outcome[p].changed
                   /\ CountSite(calls[p], "ensure") =
                        IF NeedsPowerOn(droplet[p]) THEN 2 ELSE 1

\* A droplet that was off has been sent power_on and the task reported
\* changed=true at once, the droplet being still off.
C17_Witness ==
    \E p \in Procs :
        /\ WantsPresent(params[p]) /\ ~params[p].wait
        /\ Succeeded(p) /\ outcome[p].changed
        /\ LastCall(calls[p]).op = "power_on"
        /\ Exists(droplet[p].id)
        /\ remote[droplet[p].id].status = "off"

\* --------------------------------------------------------------- C18
\* Two invocations run side by side (two plays against one account).
ConcProcs == {1, 2}

\* Their tasks: no id, the same name, unique_name; present or absent, with
\* no wait or a wait of one time step.
ConcTasks ==
    { q \in ParamSpace :
        /\ q.id = NoId /\ q.name = "web" /\ q.unique_name
        /\ q.state \in {"present", "absent"}
        /\ q.wait => q.wait_timeout = TimeStep }

StartConc(p) ==
    /\ pc[p] = "idle"
    /\ \E q \in ConcTasks : Begin(p, q, DefaultCreds, NoPrev)

NextConc ==
    \/ \E p \in ConcProcs : StartConc(p)
    \/ \E p \in ConcProcs : Step(p)
    \/ \E id \in DropletIds : Activate(id)

\* The steps of the two invocations interleave in any order.
SpecConc == Init /\ [][NextConc]_vars

\* A present task with unique_name and a name.
UniquePresent(q) == WantsPresent(q) /\ q.unique_name /\ HasName(q.name)

\* The invocation's create call was answered with a new droplet.
Created(log) == \E i \in Idx(log) : log[i].op = "create" /\ log[i].res = "new"

\* C18: with invocations running side by side, a unique-name present task
\* decides on create from its own listing alone: it issues create exactly
\* when that listing showed no droplet of the name, whatever has been
\* created since.  So two such tasks for one name that both listed before
\* either created both create, and two droplets share the name.
C18_CheckThenAct ==
    \A p \in ConcProcs :
        UniquePresent(params[p])
        => /\ pc[p] = "create"
                => /\ Len(calls[p]) = 1
                   /\ calls[p][1].op = "list" /\ calls[p][1].res = ""
           /\ \A i \in Idx(calls[p]) :
                calls[p][i].op = "create"
                => i = 2 /\ calls[p][1].op = "list" /\ calls[p][1].res = ""
           /\ \A r \in ConcProcs \ {p} :
                ( /\ UniquePresent(params[r])
                  /\ params[r].name = params[p].name
                  /\ Created(calls[p]) /\ Created(calls[r]) )
                => /\ droplet[p].id # droplet[r].id
                   /\ remote[droplet[p].id].name = params[p].name
                   /\ remote[droplet[r].id].name = params[p].name
                   /\ Cardinality(NamedIn(remote, params[p].name)) >= 2

\* Both invocations listed, saw no droplet named web, and created one:
\* two droplets named web where there was none.
C18_Witness ==
    /\ \A p \in ConcProcs :
         /\ UniquePresent(params[p])
         /\ Len(calls[p]) >= 2
         /\ calls[p][1].op = "list" /\ calls[p][1].res = ""
         /\ calls[p][2].op = "create" /\ calls[p][2].res = "new"
    /\ params[1].name = params[2].name
    /\ Cardinality(NamedIn(remote, params[1].name)) = 2
    /\ droplet[1].id # droplet[2].id

\* --------------------------------------------------------------- C19
\* C19: the changed flag of a successful report agrees with the calls
\* made: changed=true exactly when the invocation issued a create, power-on
\* or delete call.
C19_ChangedAgrees ==
    \A p \in Procs :
        Succeeded(p) => (outcome[p].changed <=> ~NoMutation(calls[p]))

\* --------------------------------------------------------------- C20
\* No id, and unique_name false: get_droplet is called without id and the
\* name lookup is skipped.
NoLookupTask(q) == ~HasId(q.id) /\ ~q.unique_name

\* A finished run of the task, begun with the credential resolved.
RanCore(p) == pc[p] \notin {"idle", "credentials"} /\ ResolveToken(creds[p]).ok

\* C20: an invocation without id and with unique_name=false issues no
\* lookup call, whatever droplets exist.  A present task then issues create
\* as its first call, every time it is run, so that when two runs in a row
\* both got a droplet there are two droplets of the name; an absent task
\* issues no call at all and reports success with changed=false and
\* 'Droplet not found.'.
C20_NoLookup ==
    \A p \in Procs :
        (NoLookupTask(params[p]) /\ RanCore(p))
        => /\ CountSite(calls[p], "locate") = 0
           /\ CountOp(calls[p], "list") = 0
           /\ WantsPresent(params[p])
                => /\ pc[p] \notin {"locate_id", "locate_name", "create"}
                        => calls[p][1].op = "create"
                   /\ \A i \in Idx(calls[p]) : calls[p][i].op = "create" => i = 1
                   /\ (Created(calls[p]) /\ Created(prev[p].calls))
                        => /\ droplet[p].id \in NamedIn(remote, params[p].name)
                           /\ Cardinality(NamedIn(remote, params[p].name)) >= 2
           /\ WantsAbsent(params[p])
                => /\ calls[p] = <<>>
                   /\ pc[p] \notin {"locate_id", "locate_name", "absent"}
                        => /\ Succeeded(p)
                           /\ ~outcome[p].changed
                           /\ outcome[p].msg = "Droplet not found."
                           /\ outcome[p].droplet = NoDroplet

\* The task 'present, name web' was run twice and created a droplet each
\* time: two droplets named web.
C20_Witness ==
    \E p \in Procs :
        /\ NoLookupTask(params[p]) /\ WantsPresent(params[p])
        /\ Succeeded(p)
        /\ Created(calls[p]) /\ Created(prev[p].calls)
        /\ Cardinality(NamedIn(remote, params[p].name)) >= 2
=============================================================================
